---- MODULE Spec2Model ----
(***************************************************************************)
(* A model of pickle_queue.Queue (src/pickle_queue/queue.py): a list of    *)
(* items pickled into one file, every operation one `with FileLock(...)`   *)
(* critical section over that file.                                        *)
(*                                                                         *)
(* The file system holds two paths: queue_file (the blob found there) and  *)
(* lock_file (the inode the path names, 0 when the path does not exist).   *)
(* FileLock is the POSIX flock lock of the filelock package: each attempt  *)
(* opens lock_file (creating it when absent), tries a non-blocking flock   *)
(* on the inode it opened, and on failure closes the descriptor and polls  *)
(* again until the timeout says stop.  The lock is therefore a lock on an  *)
(* inode, not on the path; leaving the with statement unlocks and closes,  *)
(* and does not remove lock_file.                                          *)
(*                                                                         *)
(* Every process runs one call at a time; pc[p] is its position in it.     *)
(* log, ncalls and queue_file0 record what happened; no action reads them  *)
(* except to bound the number of calls.                                    *)
(***************************************************************************)
EXTENDS Integers, Sequences, FiniteSets, TLC

VARIABLES
    queue_file,   \* the blob at the path queue_file: [kind, data]
    lock_file,    \* the inode the path lock_file names, 0 = no such path
    nextIno,      \* the next fresh inode number
    pc,           \* pc[p]: position of process p in its current call
    call,         \* call[p]: the call p is running (or ran last)
    fd,           \* fd[p]: the inode p's FileLock has open, 0 = none
    queue_data,   \* queue_data[p]: the local list of the call
    res,          \* res[p]: outcome of p's last call
    log,          \* calls in the order they acquired the lock, with outcomes
    ncalls,       \* number of calls started so far
    queue_file0   \* the blob at queue_file when the processes started

vars ==
    <<queue_file, lock_file, nextIno, pc, call, fd, queue_data, res, log, ncalls,
      queue_file0>>

----------------------------------------------------------------------------
(* Bounds of the model *)

NProcs == 2
MaxCalls == 3
MaxLen == 2

Procs == 1..NProcs

\* Items found in queues.  "f" stands for a value pickle cannot encode
\* (a lambda, an open file): pickle.dump raises on it.
GoodItems == {"a", "b", "c"}
BadItems == {"f"}
Items == GoodItems \cup BadItems

Encodable(x) == x \notin BadItems

\* Items the callers of the model put.
PutItems == {"a", "b"}

----------------------------------------------------------------------------
(* The codec: pickle.dump / pickle.load on the blob *)

\* A blob is [kind, data].  kind "pickle" is a complete pickle of the list
\* data; "empty" is a zero-byte file; "garbage" is bytes that are no pickle
\* (including a pickle cut off inside an opcode); "absent" is no file.
Absent == [kind |-> "absent", data |-> <<>>]
ZeroBytes == [kind |-> "empty", data |-> <<>>]
Garbage == [kind |-> "garbage", data |-> <<>>]

\* pickle.dump(queue_data, file) on a list every item of which encodes.
Dump(s) == [kind |-> "pickle", data |-> s]

CanDump(s) == \A i \in 1..Len(s) : Encodable(s[i])

\* What _save_queue leaves at queue_file when pickle.dump raises: open(..., 'wb')
\* has already truncated the file; nothing, or an unfinished pickle, is in it.
FailedDump == {ZeroBytes, Garbage}

\* _load_queue as it would be if it did not catch FileNotFoundError.
LoadRaisesOnMissing(blob) == blob.kind \in {"garbage", "absent"}

\* _load_queue: FileNotFoundError and EOFError are caught and give [];
\* any other decoding error (pickle.UnpicklingError) is not caught.
LoadRaises(blob) == blob.kind = "garbage"

LoadQueue(blob) == IF blob.kind = "pickle" THEN blob.data ELSE <<>>

Exists(blob) == blob.kind # "absent"

----------------------------------------------------------------------------
(* Python list operations used by the calls *)

\* queue_data.append(item)
ListAppend(q, item) == Append(q, item)

\* extend as it would be if it put the items in front.
ListExtendFront(q, items) == items \o q

\* queue_data.extend(items)
ListExtend(q, items) == q \o items

\* Removal as it would be if it dropped the element after the one asked for.
RemoveAfter(s, k) ==
    IF k < Len(s) THEN SubSeq(s, 1, k) \o SubSeq(s, k + 2, Len(s)) ELSE SubSeq(s, 1, k - 1)

\* del s[k], counting from 1: what list.pop leaves behind.
RemoveAt(s, k) == SubSeq(s, 1, k - 1) \o SubSeq(s, k + 1, Len(s))

\* pop as it would be with list.pop()'s own default, the last element.
PopLast(s, position) == Len(s)

\* pop as it would be if a position past the end took the last element.
PopClamped(s, position) ==
    LET i == IF position < 0 THEN position + Len(s) ELSE position
    IN  IF i < 0 THEN 0 ELSE IF i >= Len(s) THEN Len(s) ELSE i + 1

\* pop as it would be if a negative position were refused.
PopNonNegative(s, position) ==
    IF position < 0 \/ position >= Len(s) THEN 0 ELSE position + 1

\* list.pop(position): the 1-based index popped, 0 when it raises IndexError.
\* A negative position counts from the end.
PopIndex(s, position) ==
    LET i == IF position < 0 THEN position + Len(s) ELSE position
    IN  IF i < 0 \/ i >= Len(s) THEN 0 ELSE i + 1

\* The loop as it would be if it stopped at the last item instead of after it.
RECURSIVE BatchLoopKeepOne(_, _, _)
BatchLoopKeepOne(k, items, q) ==
    IF k <= 0 \/ Len(q) <= 1 THEN <<items, q>>
    ELSE BatchLoopKeepOne(k - 1, Append(items, Head(q)), Tail(q))

\* The loop as it would be if it did not count: every item is taken.
BatchLoopAll(k, items, q) == <<items \o q, <<>>>>

\* The loop of get_batch: for _ in range(k): pop(0) while the list is not
\* empty.  Gives <<items, queue_data>> after the loop.
RECURSIVE BatchLoop(_, _, _)
BatchLoop(k, items, q) ==
    IF k <= 0 \/ q = <<>> THEN <<items, q>>
    ELSE BatchLoop(k - 1, Append(items, Head(q)), Tail(q))

----------------------------------------------------------------------------
(* Outcomes of a call *)

Outcome(tag, val, n) == [tag |-> tag, val |-> val, n |-> n]
Pending == Outcome("pending", <<>>, 0)
Ok == Outcome("ok", <<>>, 0)
OkItems(v) == Outcome("ok", v, 0)
OkInt(n) == Outcome("ok", <<>>, n)
Raised(e) == Outcome(e, <<>>, 0)

NoCall == [name |-> "none", items |-> <<>>, n |-> 0, timeout |-> -1]
MkCall(name, items, n, timeout) ==
    [name |-> name, items |-> items, n |-> n, timeout |-> timeout]

----------------------------------------------------------------------------
(* FileLock: flock on the inode lock_file names *)

\* The lock as it would be if it were given up once the list is loaded.
InLockUntilLoaded == {"load", "unlinkq", "unlinkl", "release"}

\* Positions at which a process holds the flock it acquired.
InLock == {"load", "body", "unlinkq", "unlinkl", "release"}

Holds(p) == pc[p] \in InLock

\* The lock as it would be if flock never refused.
NeverLocked(ino) == FALSE

\* flock(fd, LOCK_EX | LOCK_NB) fails when another descriptor holds the inode.
Locked(ino) == \E q \in Procs : Holds(q) /\ fd[q] = ino

\* The first statement inside `with FileLock(...)` of each call.
FirstStep(name) ==
    CASE name \in {"clear", "create"} -> "body"
      [] name = "delete" -> "unlinkq"
      [] OTHER -> "load"

\* os.open(lock_file, O_RDWR | O_TRUNC | O_CREAT): the path is created when
\* absent, and the descriptor refers to the inode the path names now.
LockOpen(p) ==
    /\ pc[p] = "open"
    /\ IF lock_file = 0
       THEN /\ lock_file' = nextIno
            /\ nextIno' = nextIno + 1
            /\ fd' = [fd EXCEPT ![p] = nextIno]
       ELSE /\ fd' = [fd EXCEPT ![p] = lock_file]
            /\ UNCHANGED <<lock_file, nextIno>>
    /\ pc' = [pc EXCEPT ![p] = "flock"]
    /\ UNCHANGED <<queue_file, call, queue_data, res, log, ncalls, queue_file0>>

\* The flock succeeds: the body of the with statement starts.
LockAcquire(p) ==
    /\ pc[p] = "flock"
    /\ ~Locked(fd[p])
    /\ pc' = [pc EXCEPT ![p] = FirstStep(call[p].name)]
    /\ log' = IF call[p].name = "create" THEN log
              ELSE Append(log, [proc |-> p, call |-> call[p], res |-> Pending])
    /\ UNCHANGED <<queue_file, lock_file, nextIno, call, fd, queue_data, res, ncalls, queue_file0>>

\* The flock fails and the wait is not over: close, sleep, open again.
LockRetry(p) ==
    /\ pc[p] = "flock"
    /\ Locked(fd[p])
    /\ call[p].timeout # 0
    /\ pc' = [pc EXCEPT ![p] = "open"]
    /\ fd' = [fd EXCEPT ![p] = 0]
    /\ UNCHANGED <<queue_file, lock_file, nextIno, call, queue_data, res, log, ncalls, queue_file0>>

\* The flock fails and the timeout has passed: filelock.Timeout, which every
\* public call turns into TimeoutError.  With timeout = 0 this is the first
\* failed attempt; with timeout < 0 it never happens.
LockTimeout(p) ==
    /\ pc[p] = "flock"
    /\ Locked(fd[p])
    /\ call[p].timeout >= 0
    /\ pc' = [pc EXCEPT ![p] = "idle"]
    /\ fd' = [fd EXCEPT ![p] = 0]
    /\ res' = [res EXCEPT ![p] = Raised("TimeoutError")]
    /\ UNCHANGED <<queue_file, lock_file, nextIno, call, queue_data, log, ncalls, queue_file0>>

\* Leaving the with statement: unlock and close; the call returns or raises.
Release(p) ==
    /\ pc[p] = "release"
    /\ pc' = [pc EXCEPT ![p] = "idle"]
    /\ fd' = [fd EXCEPT ![p] = 0]
    /\ queue_data' = [queue_data EXCEPT ![p] = <<>>]
    /\ log' = IF call[p].name = "create" THEN log
              ELSE LET i == CHOOSE i \in 1..Len(log) :
                                /\ log[i].proc = p
                                /\ \A j \in (i + 1)..Len(log) : log[j].proc # p
                   IN  [log EXCEPT ![i].res = res[p]]
    /\ UNCHANGED <<queue_file, lock_file, nextIno, call, res, ncalls, queue_file0>>

----------------------------------------------------------------------------
(* Construction *)

\* Queue.__init__, _create_queue line 28: the existence check made without
\* the lock.  Only when the file is absent is the lock taken.
Construct(p) ==
    /\ pc[p] = "nostore"
    /\ IF Exists(queue_file)
       THEN /\ pc' = [pc EXCEPT ![p] = "idle"]
            /\ UNCHANGED call
       ELSE /\ pc' = [pc EXCEPT ![p] = "open"]
            /\ call' = [call EXCEPT ![p] = MkCall("create", <<>>, 0, -1)]
    /\ UNCHANGED <<queue_file, lock_file, nextIno, fd, queue_data, res, log, ncalls, queue_file0>>

\* _create_queue as it would be without the check repeated under the lock.
CreateBodyUnchecked(p) ==
    /\ pc[p] = "body"
    /\ call[p].name = "create"
    /\ queue_file' = Dump(<<>>)
    /\ pc' = [pc EXCEPT ![p] = "release"]
    /\ UNCHANGED <<lock_file, nextIno, call, fd, queue_data, res, log, ncalls, queue_file0>>

\* _create_queue lines 30-32: the check repeated under the lock, and the
\* empty list written when the file is still absent.
CreateBody(p) ==
    /\ pc[p] = "body"
    /\ call[p].name = "create"
    /\ queue_file' = IF Exists(queue_file) THEN queue_file ELSE Dump(<<>>)
    /\ pc' = [pc EXCEPT ![p] = "release"]
    /\ UNCHANGED <<lock_file, nextIno, call, fd, queue_data, res, log, ncalls, queue_file0>>

----------------------------------------------------------------------------
(* The public calls *)

\* A caller starts a call on its store.
Call(p, c) ==
    /\ pc[p] = "idle"
    /\ ncalls < MaxCalls
    /\ call' = [call EXCEPT ![p] = c]
    /\ pc' = [pc EXCEPT ![p] = "open"]
    /\ res' = [res EXCEPT ![p] = Pending]
    /\ queue_data' = [queue_data EXCEPT ![p] = <<>>]
    /\ ncalls' = ncalls + 1
    /\ UNCHANGED <<queue_file, lock_file, nextIno, fd, log, queue_file0>>

\* The load as it would be if it wrote the empty list where it finds no file.
LoadCreating(p) ==
    /\ pc[p] = "load"
    /\ queue_file' = IF Exists(queue_file) THEN queue_file ELSE Dump(<<>>)
    /\ IF LoadRaises(queue_file)
       THEN /\ res' = [res EXCEPT ![p] = Raised("UnpicklingError")]
            /\ pc' = [pc EXCEPT ![p] = "release"]
            /\ UNCHANGED queue_data
       ELSE /\ queue_data' = [queue_data EXCEPT ![p] = LoadQueue(queue_file)]
            /\ IF call[p].name = "size"
               THEN /\ res' = [res EXCEPT ![p] = OkInt(Len(LoadQueue(queue_file)))]
                    /\ pc' = [pc EXCEPT ![p] = "release"]
               ELSE /\ pc' = [pc EXCEPT ![p] = "body"]
                    /\ UNCHANGED res
    /\ UNCHANGED <<lock_file, nextIno, call, fd, log, ncalls, queue_file0>>

\* queue_data = self._load_queue() (items = ... in get_all, len(...) in size).
Load(p) ==
    /\ pc[p] = "load"
    /\ IF LoadRaises(queue_file)
       THEN /\ res' = [res EXCEPT ![p] = Raised("UnpicklingError")]
            /\ pc' = [pc EXCEPT ![p] = "release"]
            /\ UNCHANGED queue_data
       ELSE /\ queue_data' = [queue_data EXCEPT ![p] = LoadQueue(queue_file)]
            /\ IF call[p].name = "size"
               THEN /\ res' = [res EXCEPT ![p] = OkInt(Len(LoadQueue(queue_file)))]
                    /\ pc' = [pc EXCEPT ![p] = "release"]
               ELSE /\ pc' = [pc EXCEPT ![p] = "body"]
                    /\ UNCHANGED res
    /\ UNCHANGED <<queue_file, lock_file, nextIno, call, fd, log, ncalls, queue_file0>>

\* self._save_queue(queue_data=s) followed by the call's normal result r.
SaveQueue(p, s, r) ==
    /\ queue_data' = [queue_data EXCEPT ![p] = s]
    /\ pc' = [pc EXCEPT ![p] = "release"]
    /\ IF CanDump(s)
       THEN /\ queue_file' = Dump(s)
            /\ res' = [res EXCEPT ![p] = r]
       ELSE /\ queue_file' \in FailedDump
            /\ res' = [res EXCEPT ![p] = Raised("PicklingError")]

\* An exception as it would be if it left the with statement without the
\* lock being given up.
RaiseHolding(p, e) ==
    /\ res' = [res EXCEPT ![p] = Raised(e)]
    /\ pc' = [pc EXCEPT ![p] = "idle"]
    /\ UNCHANGED <<queue_file, queue_data>>

\* An exception raised inside the with statement before anything is saved.
Raise(p, e) ==
    /\ res' = [res EXCEPT ![p] = Raised(e)]
    /\ pc' = [pc EXCEPT ![p] = "release"]
    /\ UNCHANGED <<queue_file, queue_data>>

PutBody(p) ==
    /\ pc[p] = "body"
    /\ call[p].name = "put"
    /\ SaveQueue(p, ListAppend(queue_data[p], call[p].items[1]), Ok)
    /\ UNCHANGED <<lock_file, nextIno, call, fd, log, ncalls, queue_file0>>

PutBatchBody(p) ==
    /\ pc[p] = "body"
    /\ call[p].name = "put_batch"
    /\ SaveQueue(p, ListExtend(queue_data[p], call[p].items), Ok)
    /\ UNCHANGED <<lock_file, nextIno, call, fd, log, ncalls, queue_file0>>

GetBody(p) ==
    /\ pc[p] = "body"
    /\ call[p].name = "get"
    /\ LET q == queue_data[p]
           k == PopIndex(q, call[p].n)
       IN  IF q = <<>> THEN Raise(p, "EmptyQueueError")
           ELSE IF k = 0 THEN Raise(p, "IndexError")
           ELSE SaveQueue(p, RemoveAt(q, k), OkItems(<<q[k]>>))
    /\ UNCHANGED <<lock_file, nextIno, call, fd, log, ncalls, queue_file0>>

GetBatchBody(p) ==
    /\ pc[p] = "body"
    /\ call[p].name = "get_batch"
    /\ LET q == queue_data[p]
           r == BatchLoop(call[p].n, <<>>, q)
       IN  IF q = <<>> THEN Raise(p, "EmptyQueueError")
           ELSE SaveQueue(p, r[2], OkItems(r[1]))
    /\ UNCHANGED <<lock_file, nextIno, call, fd, log, ncalls, queue_file0>>

\* get_all as it would be if it returned the items without saving the
\* empty list.
GetAllBodyKeeping(p) ==
    /\ pc[p] = "body"
    /\ call[p].name = "get_all"
    /\ res' = [res EXCEPT ![p] = OkItems(queue_data[p])]
    /\ pc' = [pc EXCEPT ![p] = "release"]
    /\ UNCHANGED <<queue_file, lock_file, nextIno, call, fd, queue_data, log, ncalls, queue_file0>>

GetAllBody(p) ==
    /\ pc[p] = "body"
    /\ call[p].name = "get_all"
    /\ queue_file' = Dump(<<>>)
    /\ res' = [res EXCEPT ![p] = OkItems(queue_data[p])]
    /\ pc' = [pc EXCEPT ![p] = "release"]
    /\ UNCHANGED <<lock_file, nextIno, call, fd, queue_data, log, ncalls, queue_file0>>

\* clear as it would be if it refused an empty queue the way get does.
ClearBodyChecked(p) ==
    /\ pc[p] = "body"
    /\ call[p].name = "clear"
    /\ IF LoadQueue(queue_file) = <<>>
       THEN Raise(p, "EmptyQueueError")
       ELSE /\ queue_file' = Dump(<<>>)
            /\ res' = [res EXCEPT ![p] = Ok]
            /\ pc' = [pc EXCEPT ![p] = "release"]
            /\ UNCHANGED queue_data
    /\ UNCHANGED <<lock_file, nextIno, call, fd, log, ncalls, queue_file0>>

ClearBody(p) ==
    /\ pc[p] = "body"
    /\ call[p].name = "clear"
    /\ queue_file' = Dump(<<>>)
    /\ res' = [res EXCEPT ![p] = Ok]
    /\ pc' = [pc EXCEPT ![p] = "release"]
    /\ UNCHANGED <<lock_file, nextIno, call, fd, queue_data, log, ncalls, queue_file0>>

\* delete line 164: self.queue_file.unlink()
UnlinkQueue(p) ==
    /\ pc[p] = "unlinkq"
    /\ IF Exists(queue_file)
       THEN /\ queue_file' = Absent
            /\ pc' = [pc EXCEPT ![p] = "unlinkl"]
            /\ UNCHANGED res
       ELSE /\ res' = [res EXCEPT ![p] = Raised("FileNotFoundError")]
            /\ pc' = [pc EXCEPT ![p] = "release"]
            /\ UNCHANGED queue_file
    /\ UNCHANGED <<lock_file, nextIno, call, fd, queue_data, log, ncalls, queue_file0>>

\* delete line 165: self.lock_file.unlink().  The path goes; the inode the
\* caller has open and locked stays locked until Release.
UnlinkLock(p) ==
    /\ pc[p] = "unlinkl"
    /\ IF lock_file # 0
       THEN /\ lock_file' = 0
            /\ res' = [res EXCEPT ![p] = Ok]
       ELSE /\ res' = [res EXCEPT ![p] = Raised("FileNotFoundError")]
            /\ UNCHANGED lock_file
    /\ pc' = [pc EXCEPT ![p] = "release"]
    /\ UNCHANGED <<queue_file, nextIno, call, fd, queue_data, log, ncalls, queue_file0>>

----------------------------------------------------------------------------
(* What the callers may ask for *)

\* Lists of at most n of the items xs.
SeqsUpTo(xs, n) == UNION {[1..k -> xs] : k \in 0..n}

\* timeout: negative waits for ever, 0 tries once, positive waits a while.
Timeouts == {-1, 0, 1}

PutCalls(xs, ts) == {MkCall("put", <<x>>, 0, t) : x \in xs, t \in ts}
PutBatchCalls(bs, ts) == {MkCall("put_batch", b, 0, t) : b \in bs, t \in ts}
GetCalls(ns, ts) == {MkCall("get", <<>>, n, t) : n \in ns, t \in ts}
GetBatchCalls(ns, ts) == {MkCall("get_batch", <<>>, n, t) : n \in ns, t \in ts}
PlainCalls(names, ts) == {MkCall(name, <<>>, 0, t) : name \in names, t \in ts}

\* The state in which the processes start: no lock file, no store built yet,
\* and at queue_file one of the blobs.
InitWith(blobs) ==
    /\ queue_file \in blobs
    /\ queue_file0 = queue_file
    /\ lock_file = 0
    /\ nextIno = 1
    /\ pc = [p \in Procs |-> "nostore"]
    /\ call = [p \in Procs |-> NoCall]
    /\ fd = [p \in Procs |-> 0]
    /\ queue_data = [p \in Procs |-> <<>>]
    /\ res = [p \in Procs |-> Pending]
    /\ log = <<>>
    /\ ncalls = 0

\* The state once every process has built its store (Queue.__init__ has
\* returned in each): the first of them found no file, created the lock file
\* and wrote the empty list; since then the queue came to hold some list.
InitBuilt(blobs) ==
    /\ queue_file \in blobs
    /\ queue_file0 = queue_file
    /\ lock_file = 1
    /\ nextIno = 2
    /\ pc = [p \in Procs |-> "idle"]
    /\ call = [p \in Procs |-> NoCall]
    /\ fd = [p \in Procs |-> 0]
    /\ queue_data = [p \in Procs |-> <<>>]
    /\ res = [p \in Procs |-> Pending]
    /\ log = <<>>
    /\ ncalls = 0

----------------------------------------------------------------------------
(* The whole program: every call, every timeout, any blob to start from *)

AllCalls ==
    PutCalls({"a", "f"}, {-1, 0})
        \cup PutBatchCalls({<<"a", "b">>}, {-1, 0})
        \cup GetCalls({0}, {-1, 0})
        \cup GetBatchCalls({1}, {-1, 0})
        \cup PlainCalls({"get_all", "clear", "delete"}, {-1, 0})
        \cup PlainCalls({"size"}, Timeouts)

Init == InitWith({Absent})

Next ==
    \E p \in Procs :
        \/ Construct(p)
        \/ \E c \in AllCalls : Call(p, c)
        \/ LockOpen(p)
        \/ LockAcquire(p)
        \/ LockRetry(p)
        \/ LockTimeout(p)
        \/ Release(p)
        \/ CreateBody(p)
        \/ Load(p)
        \/ PutBody(p)
        \/ PutBatchBody(p)
        \/ GetBody(p)
        \/ GetBatchBody(p)
        \/ GetAllBody(p)
        \/ ClearBody(p)
        \/ UnlinkQueue(p)
        \/ UnlinkLock(p)

Spec == Init /\ [][Next]_vars

----------------------------------------------------------------------------
(* Restrictions of the program to some of its calls.  The actions are the  *)
(* same; only the calls the callers make and the blob they start from      *)
(* differ.                                                                 *)

\* Queues that earlier runs left behind: a complete pickle of some list.
Populated(n) == {Dump(s) : s \in SeqsUpTo(GoodItems, n)}

\* Callers that only put, waiting for the lock without bound.
InitPut == InitWith({Absent} \cup Populated(MaxLen))

NextPut ==
    \E p \in Procs :
        \/ Construct(p)
        \/ \E c \in PutCalls(PutItems, {-1}) : Call(p, c)
        \/ LockOpen(p)
        \/ LockAcquire(p)
        \/ LockRetry(p)
        \/ Release(p)
        \/ CreateBody(p)
        \/ Load(p)
        \/ PutBody(p)

SpecPut == InitPut /\ [][NextPut]_vars

\* Callers that use every call but delete, on items pickle can encode,
\* waiting for the lock without bound, on a queue just built.
SerialCalls ==
    PutCalls({"a"}, {-1})
        \cup PutBatchCalls({<<"b", "a">>}, {-1})
        \cup GetCalls({1}, {-1})
        \cup GetBatchCalls({1}, {-1})
        \cup PlainCalls({"get_all", "clear", "size"}, {-1})

InitSerial == InitBuilt({Dump(<<>>)})

NextSerial ==
    \E p \in Procs :
        \/ \E c \in SerialCalls : Call(p, c)
        \/ LockOpen(p)
        \/ LockAcquire(p)
        \/ LockRetry(p)
        \/ Release(p)
        \/ Load(p)
        \/ PutBody(p)
        \/ PutBatchBody(p)
        \/ GetBody(p)
        \/ GetBatchBody(p)
        \/ GetAllBody(p)
        \/ ClearBody(p)

SpecSerial == InitSerial /\ [][NextSerial]_vars

\* Callers that fill a queue just built and then drain it.
FillCalls ==
    PutCalls(PutItems, {-1})
        \cup PutBatchCalls({<<>>, <<"b", "a">>}, {-1})
        \cup PlainCalls({"get_all", "size"}, {-1})

InitFill == InitBuilt({Dump(<<>>)})

NextFill ==
    \E p \in Procs :
        \/ \E c \in FillCalls : Call(p, c)
        \/ LockOpen(p)
        \/ LockAcquire(p)
        \/ LockRetry(p)
        \/ Release(p)
        \/ Load(p)
        \/ PutBody(p)
        \/ PutBatchBody(p)
        \/ GetAllBody(p)

SpecFill == InitFill /\ [][NextFill]_vars

\* Callers that take single items out of a queue that holds some.
GetOnlyCalls ==
    GetCalls({0, 1, 5}, {-1}) \cup PlainCalls({"get_all", "size"}, {-1})

InitGet == InitBuilt({Dump(<<"a", "b">>), Dump(<<"a", "b", "c">>)})

NextGet ==
    \E p \in Procs :
        \/ \E c \in GetOnlyCalls : Call(p, c)
        \/ LockOpen(p)
        \/ LockAcquire(p)
        \/ LockRetry(p)
        \/ Release(p)
        \/ Load(p)
        \/ GetBody(p)
        \/ GetAllBody(p)

SpecGet == InitGet /\ [][NextGet]_vars

\* Callers that take batches out of a queue that holds some items.
InitGetBatch == InitBuilt({Dump(<<"a", "b">>), Dump(<<"a", "b", "c">>)})

NextGetBatch ==
    \E p \in Procs :
        \/ \E c \in GetBatchCalls({0, 1, 2, 5}, {-1}) : Call(p, c)
        \/ LockOpen(p)
        \/ LockAcquire(p)
        \/ LockRetry(p)
        \/ Release(p)
        \/ Load(p)
        \/ GetBatchBody(p)

SpecGetBatch == InitGetBatch /\ [][NextGetBatch]_vars

\* Stores built on a location where an earlier writer left no file, a
\* zero-byte file, or bytes that are no pickle.
ReadCalls ==
    PutCalls({"a"}, {-1})
        \cup GetCalls({0}, {-1})
        \cup PlainCalls({"get_all", "size"}, {-1})

InitRead == InitWith({Absent, ZeroBytes, Garbage})

NextRead ==
    \E p \in Procs :
        \/ Construct(p)
        \/ \E c \in ReadCalls : Call(p, c)
        \/ LockOpen(p)
        \/ LockAcquire(p)
        \/ LockRetry(p)
        \/ Release(p)
        \/ CreateBody(p)
        \/ Load(p)
        \/ PutBody(p)
        \/ GetBody(p)
        \/ GetAllBody(p)

SpecRead == InitRead /\ [][NextRead]_vars

\* Callers that empty a queue, one that holds items or one that holds none.
ClearCalls ==
    PutCalls({"a"}, {-1}) \cup PlainCalls({"clear", "get_all", "size"}, {-1})

InitClear == InitBuilt({Dump(<<>>), Dump(<<"a", "b">>)})

NextClear ==
    \E p \in Procs :
        \/ \E c \in ClearCalls : Call(p, c)
        \/ LockOpen(p)
        \/ LockAcquire(p)
        \/ LockRetry(p)
        \/ Release(p)
        \/ Load(p)
        \/ PutBody(p)
        \/ GetAllBody(p)
        \/ ClearBody(p)

SpecClear == InitClear /\ [][NextClear]_vars

\* Processes that build their stores while others already put, on a
\* location that holds nothing or a queue an earlier run left.
CreateCalls == PutCalls({"a"}, {-1}) \cup PutBatchCalls({<<"b", "a">>}, {-1})

InitCreate == InitWith({Absent, Dump(<<"a", "b">>)})

NextCreate ==
    \E p \in Procs :
        \/ Construct(p)
        \/ \E c \in CreateCalls : Call(p, c)
        \/ LockOpen(p)
        \/ LockAcquire(p)
        \/ LockRetry(p)
        \/ Release(p)
        \/ CreateBody(p)
        \/ Load(p)
        \/ PutBody(p)
        \/ PutBatchBody(p)

SpecCreate == InitCreate /\ [][NextCreate]_vars

----------------------------------------------------------------------------
(* Reading the history *)

\* No call is in progress.
Quiescent == \A p \in Procs : pc[p] \in {"nostore", "idle"}

\* The entry of the log that belongs to the call p is running.
LastIdx(p) ==
    CHOOSE i \in 1..Len(log) :
        /\ log[i].proc = p
        /\ \A j \in (i + 1)..Len(log) : log[j].proc # p

Count(x, s) == Cardinality({i \in 1..Len(s) : s[i] = x})

Min(a, b) == IF a < b THEN a ELSE b

\* The items of the put and put_batch calls among the first i of the log,
\* in the order of the log.
RECURSIVE PutsUpTo(_)
PutsUpTo(i) ==
    IF i = 0 THEN <<>>
    ELSE PutsUpTo(i - 1) \o
            (IF log[i].call.name \in {"put", "put_batch"} THEN log[i].call.items ELSE <<>>)

\* The queue as an abstract sequence: what one call, run alone, makes of
\* the sequence s and what it answers.
AbsStep(s, c) ==
    CASE c.name = "put" ->
            [seq |-> Append(s, c.items[1]), res |-> Ok]
      [] c.name = "put_batch" ->
            [seq |-> s \o c.items, res |-> Ok]
      [] c.name = "get" ->
            IF s = <<>> THEN [seq |-> s, res |-> Raised("EmptyQueueError")]
            ELSE IF c.n \notin 0..(Len(s) - 1)
                 THEN [seq |-> s, res |-> Raised("IndexError")]
            ELSE [seq |-> [i \in 1..(Len(s) - 1) |-> IF i <= c.n THEN s[i] ELSE s[i + 1]],
                  res |-> OkItems(<<s[c.n + 1]>>)]
      [] c.name = "get_batch" ->
            IF s = <<>> THEN [seq |-> s, res |-> Raised("EmptyQueueError")]
            ELSE LET k == Min(c.n, Len(s))
                 IN  [seq |-> SubSeq(s, k + 1, Len(s)), res |-> OkItems(SubSeq(s, 1, k))]
      [] c.name = "get_all" ->
            [seq |-> <<>>, res |-> OkItems(s)]
      [] c.name = "clear" ->
            [seq |-> <<>>, res |-> Ok]
      [] c.name = "size" ->
            [seq |-> s, res |-> OkInt(Len(s))]

\* The abstract sequence after the first i calls of the log, one at a time.
RECURSIVE AbsAfter(_)
AbsAfter(i) ==
    IF i = 0 THEN LoadQueue(queue_file0) ELSE AbsStep(AbsAfter(i - 1), log[i].call).seq

----------------------------------------------------------------------------
(* C1 *)

\* C1: no lost update.  When callers only put, waiting without bound, then
\* once every put has returned the persisted list is as long as the list
\* they started from plus the number of puts, and holds every item put (each
\* as often as it was put).
NoLostUpdate ==
    Quiescent =>
        LET s == LoadQueue(queue_file)
            s0 == LoadQueue(queue_file0)
        IN  /\ ~LoadRaises(queue_file)
            /\ Len(log) = ncalls
            /\ Len(s) = Len(s0) + ncalls
            /\ \A x \in Items : Count(x, s) = Count(x, s0) + Count(x, PutsUpTo(Len(log)))
            /\ \A p \in Procs : pc[p] = "idle" /\ call[p].name = "put" => res[p] = Ok

\* Every process has put, the puts are all back, and no more may start.
PutsAllReturned ==
    /\ Quiescent
    /\ ncalls = MaxCalls
    /\ \A p \in Procs : \E i \in 1..Len(log) : log[i].proc = p
    /\ LoadQueue(queue_file0) # <<>>

----------------------------------------------------------------------------
(* C2 *)

\* C2: linearizability in lock order.  Without delete, every call answers
\* what the abstract sequence answers when the calls are applied one at a
\* time in the order of the log; every list a call loads is the abstract
\* sequence after the calls before it; and with no call in progress the
\* persisted list is the abstract sequence after all of them.
LinearizableInLockOrder ==
    /\ \A i \in 1..Len(log) :
          log[i].res # Pending =>
              log[i].res = AbsStep(AbsAfter(i - 1), log[i].call).res
    /\ \A p \in Procs :
          pc[p] = "body" /\ call[p].name \notin {"create", "clear"} =>
              queue_data[p] = AbsAfter(LastIdx(p) - 1)
    /\ \A p \in Procs :
          pc[p] = "release" /\ call[p].name # "create" =>
              res[p] = AbsStep(AbsAfter(LastIdx(p) - 1), call[p]).res
    /\ Quiescent => ~LoadRaises(queue_file) /\ LoadQueue(queue_file) = AbsAfter(Len(log))

\* Two processes have run calls against each other: one put a batch, the other
\* took an item out afterwards, and a third call followed.
ContendedHistory ==
    /\ Quiescent
    /\ Len(log) = MaxCalls
    /\ \E i, j \in 1..Len(log) :
          /\ i < j
          /\ log[i].proc # log[j].proc
          /\ log[i].call.name = "put_batch"
          /\ log[j].call.name = "get"
          /\ log[j].res.tag = "ok"

----------------------------------------------------------------------------
(* C3 *)

\* C3: mutual exclusion.  At most one process at a time is between
\* acquiring the queue's lock and releasing it, delete included.
MutualExclusion ==
    \A p, q \in Procs : p # q => ~(Holds(p) /\ Holds(q))

----------------------------------------------------------------------------
(* C4 *)

\* C4: all or nothing.  When the save of a call that holds the lock fails,
\* the call raises, and the next call reads the list that was persisted
\* before the call.
AllOrNothing ==
    [][\A p \in Procs :
          Holds(p) /\ res[p] = Pending /\ res'[p] = Raised("PicklingError") =>
              /\ ~LoadRaises(queue_file')
              /\ LoadQueue(queue_file') = LoadQueue(queue_file)]_vars

----------------------------------------------------------------------------
(* C5 *)

\* C5: zero-timeout fail-fast.  While one process holds the lock, the
\* attempt of another process to lock with timeout = 0 ends in TimeoutError
\* at once, and changes neither the blob nor whether the lock file exists.
ZeroTimeoutFailFast ==
    [][\A q \in Procs :
          /\ call[q].timeout = 0
          /\ pc[q] = "flock"
          /\ pc'[q] # pc[q]
          /\ \E p \in Procs \ {q} : Holds(p)
          => /\ pc'[q] = "idle"
             /\ res'[q] = Raised("TimeoutError")
             /\ queue_file' = queue_file
             /\ (lock_file' = 0) <=> (lock_file = 0)]_vars

----------------------------------------------------------------------------
(* C6 *)

\* C6: round trip.  On a queue that starts empty, a get_all that follows
\* only put and put_batch calls returns their items in call order, each
\* batch in its own order, and a size that comes next returns 0.
RoundTrip ==
    \A k \in 1..Len(log) :
        /\ LoadQueue(queue_file0) = <<>>
        /\ log[k].call.name = "get_all"
        /\ log[k].res # Pending
        /\ \A j \in 1..(k - 1) : log[j].call.name \in {"put", "put_batch"}
        => /\ log[k].res = OkItems(PutsUpTo(k - 1))
           /\ k < Len(log) /\ log[k + 1].call.name = "size" /\ log[k + 1].res # Pending
                 => log[k + 1].res = OkInt(0)

\* A batch of two put by one process, drained by get_all of another, then
\* measured by size.
FilledAndDrained ==
    /\ Len(log) >= 3
    /\ log[1].call.name = "put_batch"
    /\ log[1].call.items = <<"b", "a">>
    /\ log[2].call.name = "get_all"
    /\ log[2].proc # log[1].proc
    /\ log[2].res = OkItems(<<"b", "a">>)
    /\ log[3].call.name = "size"
    /\ log[3].res = OkInt(0)

----------------------------------------------------------------------------
(* C7 - C10: what get and get_batch do to the persisted list.  s is the     *)
(* list persisted when the call, holding the lock, pops.                   *)

\* The step in which p, inside the call `name`, pops and saves or raises.
BodyStep(p, name) ==
    /\ pc[p] = "body"
    /\ call[p].name = name
    /\ pc'[p] = "release"

\* A step of p inside the call `name` other than that one.
OtherStep(p, name) ==
    /\ call[p].name = name
    /\ pc'[p] # pc[p]
    /\ pc[p] \notin {"idle", "body"}

\* C7: FIFO default.  get() with position 0 on a non-empty queue returns
\* the head and persists the rest in order; on an empty queue it raises
\* EmptyQueueError and the persisted list stays as it is.  On [a, b], three
\* get() in a row give a, then b, then EmptyQueueError.
FifoDefault ==
    /\ [][\A p \in Procs :
            /\ BodyStep(p, "get") /\ call[p].n = 0 =>
                  LET s == LoadQueue(queue_file)
                  IN  IF s = <<>>
                      THEN res'[p] = Raised("EmptyQueueError") /\ queue_file' = queue_file
                      ELSE res'[p] = OkItems(<<Head(s)>>) /\ queue_file' = Dump(Tail(s))
            /\ OtherStep(p, "get") => queue_file' = queue_file]_vars
    /\ [](/\ queue_file0 = Dump(<<"a", "b">>)
          /\ Len(log) = 3
          /\ \A i \in 1..3 : log[i].call.name = "get" /\ log[i].call.n = 0
                                /\ log[i].res # Pending
          => /\ log[1].res = OkItems(<<"a">>)
             /\ log[2].res = OkItems(<<"b">>)
             /\ log[3].res = Raised("EmptyQueueError"))

\* On [a, b], three get() have returned.
ThreeGets ==
    /\ queue_file0 = Dump(<<"a", "b">>)
    /\ Len(log) = 3
    /\ \A i \in 1..3 : log[i].call.name = "get" /\ log[i].call.n = 0
    /\ log[1].res.tag = "ok"
    /\ log[2].res.tag = "ok"
    /\ log[3].res.tag = "EmptyQueueError"
    /\ Quiescent

\* C8: positional get.  get(n) with 0 <= n < Len(s) returns s[n + 1]
\* (counting from 1) and persists s without that one element, the others in
\* their order.
PositionalGet ==
    [][\A p \in Procs :
          /\ BodyStep(p, "get")
          /\ call[p].n >= 0
          /\ call[p].n < Len(LoadQueue(queue_file))
          => LET s == LoadQueue(queue_file)
                 t == LoadQueue(queue_file')
                 n == call[p].n
             IN  /\ res'[p] = OkItems(<<s[n + 1]>>)
                 /\ queue_file'.kind = "pickle"
                 /\ Len(t) = Len(s) - 1
                 /\ \A i \in 1..Len(t) : t[i] = IF i <= n THEN s[i] ELSE s[i + 1]]_vars

\* On [a, b, c], get(1) has returned b and a get_all after it [a, c].
MiddleTaken ==
    /\ queue_file0 = Dump(<<"a", "b", "c">>)
    /\ Len(log) >= 2
    /\ log[1].call.name = "get"
    /\ log[1].call.n = 1
    /\ log[1].res = OkItems(<<"b">>)
    /\ log[2].call.name = "get_all"
    /\ log[2].res = OkItems(<<"a", "c">>)

\* C9: out-of-range position.  get(n) with n >= Len(s) on a non-empty
\* queue raises IndexError, not EmptyQueueError, leaves the persisted list
\* as it is, and the caller gets the error with the lock released.
OutOfRange ==
    /\ [][\A p \in Procs :
            /\ BodyStep(p, "get") /\ LoadQueue(queue_file) # <<>>
                                  /\ call[p].n >= Len(LoadQueue(queue_file)) =>
                  res'[p] = Raised("IndexError") /\ queue_file' = queue_file
            /\ res[p] = Raised("IndexError") /\ pc[p] = "release" /\ pc'[p] # pc[p] =>
                  /\ pc'[p] = "idle"
                  /\ queue_file' = queue_file
                  /\ ~\E q \in Procs : pc'[q] \in InLock /\ fd'[q] = fd[p]]_vars
    /\ [](\A p \in Procs : res[p] = Raised("IndexError") /\ pc[p] = "idle" => fd[p] = 0)

\* On [a, b], get(5) has raised IndexError and a size after it returned 2.
RejectedPosition ==
    /\ queue_file0 = Dump(<<"a", "b">>)
    /\ Len(log) >= 2
    /\ log[1].call.name = "get"
    /\ log[1].call.n = 5
    /\ log[1].res = Raised("IndexError")
    /\ log[2].call.name = "size"
    /\ log[2].res = OkInt(2)

\* C10: batch clamping.  get_batch(n), n >= 0, on a non-empty queue returns
\* the first min(n, Len(s)) items and persists the others in order, however
\* large n is; it raises EmptyQueueError exactly when the queue is empty,
\* and then the persisted list stays as it is.
BatchClamping ==
    [][\A p \in Procs :
          BodyStep(p, "get_batch") /\ call[p].n >= 0 =>
              LET s == LoadQueue(queue_file)
                  k == Min(call[p].n, Len(s))
              IN  IF s = <<>>
                  THEN res'[p] = Raised("EmptyQueueError") /\ queue_file' = queue_file
                  ELSE /\ res'[p] = OkItems(SubSeq(s, 1, k))
                       /\ queue_file' = Dump(SubSeq(s, k + 1, Len(s)))]_vars

\* On [a, b], get_batch(5) has returned [a, b] and a get_batch(1) after it
\* raised EmptyQueueError.
BatchTookAll ==
    /\ queue_file0 = Dump(<<"a", "b">>)
    /\ Len(log) >= 2
    /\ log[1].call.name = "get_batch"
    /\ log[1].call.n = 5
    /\ log[1].res = OkItems(<<"a", "b">>)
    /\ log[2].call.name = "get_batch"
    /\ log[2].call.n = 1
    /\ log[2].res = Raised("EmptyQueueError")

----------------------------------------------------------------------------
(* C11 *)

\* C11 as stated: for every n >= 0 and every non-empty queue, get_batch(n)
\* returns a list of k items with 0 < k <= n.
BatchNeverEmpty ==
    [][\A p \in Procs :
          /\ BodyStep(p, "get_batch")
          /\ call[p].n >= 0
          /\ LoadQueue(queue_file) # <<>>
          => /\ res'[p].tag = "ok"
             /\ 0 < Len(res'[p].val)
             /\ Len(res'[p].val) <= call[p].n]_vars

\* C11: on a non-empty queue, get_batch(n) with n >= 1 returns a list of k
\* items with 0 < k <= n; get_batch(0) returns the empty list and persists
\* the list as it was.
BatchSizeWithinCount ==
    [][\A p \in Procs :
          /\ BodyStep(p, "get_batch")
          /\ call[p].n >= 0
          /\ LoadQueue(queue_file) # <<>>
          => IF call[p].n >= 1
             THEN /\ res'[p].tag = "ok"
                  /\ 0 < Len(res'[p].val)
                  /\ Len(res'[p].val) <= call[p].n
             ELSE /\ res'[p] = OkItems(<<>>)
                  /\ queue_file' = Dump(LoadQueue(queue_file))]_vars

\* On [a, b, c], get_batch(2) has returned two items, a get_batch(0) after
\* it none, and a get_batch(5) after that the one item left.
BatchesOfEverySize ==
    /\ queue_file0 = Dump(<<"a", "b", "c">>)
    /\ Len(log) = 3
    /\ log[1].call.n = 2
    /\ log[1].res = OkItems(<<"a", "b">>)
    /\ log[2].call.n = 0
    /\ log[2].res = OkItems(<<>>)
    /\ log[3].call.n = 5
    /\ log[3].res = OkItems(<<"c">>)

----------------------------------------------------------------------------
(* C12 *)

\* C12: forgiving read.  When the blob is missing, zero bytes long or not a
\* pickle, every call that loads takes the queue to be empty and no decoding
\* error reaches the caller: size returns 0, the other calls go on with [].
ForgivingRead ==
    [][\A p \in Procs :
          /\ pc[p] = "load"
          /\ pc'[p] # "load"
          /\ queue_file.kind \in {"absent", "empty", "garbage"}
          => /\ res'[p].tag # "UnpicklingError"
             /\ IF call[p].name = "size"
                THEN res'[p] = OkInt(0)
                ELSE pc'[p] = "body" /\ queue_data'[p] = <<>>]_vars

----------------------------------------------------------------------------
(* C13 *)

\* C13: clear and get_all succeed once they hold the lock, whether the queue
\* holds items or not.  clear persists the empty list, also when the list
\* was empty already (a second clear leaves what the first left); get_all
\* returns the persisted list, [] when it is empty, and persists the empty
\* list.  A size that comes next after a clear returns 0.
ClearAndGetAllSucceed ==
    /\ [][\A p \in Procs :
            /\ BodyStep(p, "clear") =>
                  /\ res'[p] = Ok
                  /\ queue_file' = Dump(<<>>)
            /\ BodyStep(p, "get_all") =>
                  /\ res'[p] = OkItems(LoadQueue(queue_file))
                  /\ queue_file' = Dump(<<>>)]_vars
    /\ [](\A k \in 1..Len(log) :
            /\ log[k].call.name \in {"clear", "get_all"} /\ log[k].res # Pending =>
                  log[k].res.tag = "ok"
            /\ log[k].call.name = "clear" /\ log[k].res # Pending /\ k < Len(log)
                  /\ log[k + 1].call.name = "size" /\ log[k + 1].res # Pending =>
                  log[k + 1].res = OkInt(0)
            /\ log[k].call.name = "clear" /\ k = Len(log) /\ Quiescent =>
                  queue_file = Dump(<<>>))

\* On [a, b], clear has returned twice and a get_all after them [].
ClearedTwice ==
    /\ queue_file0 = Dump(<<"a", "b">>)
    /\ Len(log) = 3
    /\ log[1].call.name = "clear"
    /\ log[1].res = Ok
    /\ log[2].call.name = "clear"
    /\ log[2].res = Ok
    /\ log[3].call.name = "get_all"
    /\ log[3].res = OkItems(<<>>)
    /\ queue_file = Dump(<<>>)

----------------------------------------------------------------------------
(* C14 *)

\* C14: construction never clobbers.  However constructions interleave with
\* each other and with the put and put_batch calls of other processes, no
\* step of a construction changes a blob that exists, the only thing a
\* construction writes is the empty list where there was no blob, and with
\* no call in progress the persisted list is the list found at the start
\* followed by every item put, in lock order.
ConstructionKeepsContents ==
    /\ [][\A p \in Procs :
            /\ pc[p] = "nostore" \/ (call[p].name = "create" /\ pc[p] # "idle")
            /\ pc'[p] # pc[p]
            => IF Exists(queue_file)
               THEN queue_file' = queue_file
               ELSE queue_file' \in {queue_file, Dump(<<>>)}]_vars
    /\ [](Quiescent =>
            LoadQueue(queue_file) = LoadQueue(queue_file0) \o PutsUpTo(Len(log)))

\* A process found no blob and went for the lock; by the time it holds the
\* lock another process has built the queue and put an item into it.
LateConstruction ==
    \E p \in Procs :
        /\ queue_file0 = Absent
        /\ call[p].name = "create"
        /\ pc[p] = "body"
        /\ LoadQueue(queue_file) # <<>>

----------------------------------------------------------------------------
(* Callers that take turns: a call starts only when none is in progress.   *)
(* The calls are delete and the calls that may follow it.                  *)

TurnCalls ==
    PutCalls({"a"}, {-1})
        \cup GetCalls({0}, {-1})
        \cup PlainCalls({"size", "delete"}, {-1})

InitTurns == InitBuilt({Dump(<<>>), Dump(<<"a", "b">>)})

\* A caller starts a call after the call before it has returned or raised.
CallInTurn(p, c) == Quiescent /\ Call(p, c)

NextTurns ==
    \E p \in Procs :
        \/ \E c \in TurnCalls : CallInTurn(p, c)
        \/ LockOpen(p)
        \/ LockAcquire(p)
        \/ Release(p)
        \/ Load(p)
        \/ PutBody(p)
        \/ GetBody(p)
        \/ UnlinkQueue(p)
        \/ UnlinkLock(p)

SpecTurns == InitTurns /\ [][NextTurns]_vars

----------------------------------------------------------------------------
(* C15 *)

\* C15: delete removes the blob and the lock file; a delete that finds no
\* blob, as the second of two deletes does, raises FileNotFoundError and
\* leaves the blob and the lock file as they were when it was called, that
\* is, after a delete that succeeded, both absent.
DeleteRemovesOrLeaves ==
    \A k \in 1..Len(log) :
        /\ log[k].call.name = "delete"
        /\ log[k].res # Pending
        /\ k = Len(log)
        /\ Quiescent
        => /\ log[k].res = Ok => ~Exists(queue_file) /\ lock_file = 0
           /\ k > 1 /\ log[k - 1].call.name = "delete" /\ log[k - 1].res = Ok =>
                 /\ log[k].res = Raised("FileNotFoundError")
                 /\ ~Exists(queue_file)
                 /\ lock_file = 0

----------------------------------------------------------------------------
(* Callers whose calls end in every way a call can end: a result, an empty *)
(* queue, a position out of range, an item pickle cannot encode, a blob    *)
(* pickle cannot decode, a file that is not there, a lock that is taken.   *)

OutcomeCalls ==
    PutCalls({"f"}, {-1})
        \cup GetCalls({5}, {-1})
        \cup GetCalls({0}, {0})
        \cup PlainCalls({"delete"}, {-1})
        \cup PlainCalls({"size"}, {0})

InitOutcomes == InitBuilt({Dump(<<"a">>)})

NextOutcomes ==
    \E p \in Procs :
        \/ \E c \in OutcomeCalls : Call(p, c)
        \/ LockOpen(p)
        \/ LockAcquire(p)
        \/ LockRetry(p)
        \/ LockTimeout(p)
        \/ Release(p)
        \/ Load(p)
        \/ PutBody(p)
        \/ GetBody(p)
        \/ UnlinkQueue(p)
        \/ UnlinkLock(p)

SpecOutcomes == InitOutcomes /\ [][NextOutcomes]_vars

----------------------------------------------------------------------------
(* C16 *)

\* C16: the lock is released before the call returns or raises, whatever
\* the outcome.  A process that is in no call has no descriptor of the lock
\* file open; a call leaves the lock only through the end of the with
\* statement; with no call in progress no inode is locked; and a call with
\* timeout = 0 that tries the lock while no other call is in progress gets it.
LockReleasedOnReturn ==
    /\ [][\A p \in Procs :
            /\ pc[p] \in InLock /\ pc'[p] \notin InLock =>
                  pc[p] = "release" /\ pc'[p] = "idle" /\ fd'[p] = 0
            /\ pc[p] = "flock" /\ pc'[p] # pc[p] /\ call[p].timeout = 0
                  /\ (\A q \in Procs \ {p} : pc[q] = "idle") =>
                  pc'[p] \in InLock /\ res'[p] = Pending]_vars
    /\ [](/\ \A p \in Procs : pc[p] = "idle" => fd[p] = 0
          /\ Quiescent => \A ino \in 1..nextIno : ~Locked(ino))

\* A call has raised from inside the with statement, and a call with
\* timeout = 0 made after it has the lock.
LockTakenAfterRaise ==
    \E p \in Procs :
        /\ call[p].timeout = 0
        /\ pc[p] = "load"
        /\ \A q \in Procs \ {p} : pc[q] = "idle"
        /\ Len(log) = 3
        /\ log[1].res.tag \in {"PicklingError", "IndexError"}
        /\ log[2].res.tag \in {"UnpicklingError", "FileNotFoundError", "EmptyQueueError"}

----------------------------------------------------------------------------
(* Producers and consumers at work on one queue, no clear and no delete.   *)

ConsumeCalls ==
    PutCalls({"a"}, {-1})
        \cup PutBatchCalls({<<"b", "a">>}, {-1})
        \cup GetCalls({0}, {-1})
        \cup GetBatchCalls({2}, {-1})
        \cup PlainCalls({"get_all"}, {-1})

InitConsume == InitBuilt({Dump(<<>>), Dump(<<"a", "b">>)})

NextConsume ==
    \E p \in Procs :
        \/ \E c \in ConsumeCalls : Call(p, c)
        \/ LockOpen(p)
        \/ LockAcquire(p)
        \/ LockRetry(p)
        \/ Release(p)
        \/ Load(p)
        \/ PutBody(p)
        \/ PutBatchBody(p)
        \/ GetBody(p)
        \/ GetBatchBody(p)
        \/ GetAllBody(p)

SpecConsume == InitConsume /\ [][NextConsume]_vars

\* The items the get, get_batch and get_all calls among the first i of the
\* log have returned to their callers.
RECURSIVE ReturnedUpTo(_)
ReturnedUpTo(i) ==
    IF i = 0 THEN <<>>
    ELSE ReturnedUpTo(i - 1) \o
            (IF log[i].call.name \in {"get", "get_batch", "get_all"} THEN log[i].res.val ELSE <<>>)

----------------------------------------------------------------------------
(* C17 *)

\* C17: exactly-once delivery.  When processes put, put_batch, get,
\* get_batch and get_all at the same time, with no clear and no delete, no
\* item is returned more often than it was put or found at the start, and
\* with no call in progress every item is, as often as it was put or found
\* at the start, either returned to a caller or in the persisted list.
ExactlyOnce ==
    LET put == LoadQueue(queue_file0) \o PutsUpTo(Len(log))
        got == ReturnedUpTo(Len(log))
    IN  \A x \in Items :
            /\ Count(x, got) <= Count(x, put)
            /\ Quiescent =>
                  /\ ~LoadRaises(queue_file)
                  /\ Count(x, got) + Count(x, LoadQueue(queue_file)) = Count(x, put)

\* Two processes have consumed from the queue a third call filled: each got
\* items, and nothing is left.
TwoConsumersServed ==
    /\ Quiescent
    /\ Len(log) = 3
    /\ log[1].call.name = "put_batch"
    /\ log[2].call.name = "get"
    /\ log[2].res.tag = "ok"
    /\ log[3].call.name \in {"get_batch", "get_all"}
    /\ log[3].res.tag = "ok"
    /\ log[3].proc # log[2].proc
    /\ LoadQueue(queue_file) = <<>>

----------------------------------------------------------------------------
(* Callers that take single items counting from the end of the queue.      *)

GetBackCalls == GetCalls({-4, -3, -1, 1, 5}, {-1})

InitGetBack == InitBuilt({Dump(<<"a", "b">>), Dump(<<"a", "b", "c">>)})

NextGetBack ==
    \E p \in Procs :
        \/ \E c \in GetBackCalls : Call(p, c)
        \/ LockOpen(p)
        \/ LockAcquire(p)
        \/ LockRetry(p)
        \/ Release(p)
        \/ Load(p)
        \/ GetBody(p)

SpecGetBack == InitGetBack /\ [][NextGetBack]_vars

----------------------------------------------------------------------------
(* C18 *)

\* C18: negative positions.  On a queue of L >= 1 items s, get(n) with
\* -L <= n < 0 returns the item L + n places from the head (s[L + n + 1]
\* counting from 1) and persists s without that one item; get raises
\* IndexError exactly when n >= L or n < -L, and then persists nothing.
NegativePosition ==
    [][\A p \in Procs :
          BodyStep(p, "get") /\ LoadQueue(queue_file) # <<>> =>
              LET s == LoadQueue(queue_file)
                  t == LoadQueue(queue_file')
                  L == Len(s)
                  n == call[p].n
              IN  /\ -L <= n /\ n < 0 =>
                        /\ res'[p] = OkItems(<<s[L + n + 1]>>)
                        /\ queue_file'.kind = "pickle"
                        /\ Len(t) = L - 1
                        /\ \A i \in 1..Len(t) : t[i] = IF i <= L + n THEN s[i] ELSE s[i + 1]
                  /\ res'[p] = Raised("IndexError") <=> (n >= L \/ n < -L)
                  /\ res'[p] = Raised("IndexError") => queue_file' = queue_file]_vars

\* On [a, b, c], get(-1) has returned c, a get(-3) after it has raised
\* IndexError on the two items left, and a get(-1) after that returned b.
TakenFromTheEnd ==
    /\ queue_file0 = Dump(<<"a", "b", "c">>)
    /\ Len(log) = 3
    /\ log[1].call.n = -1
    /\ log[1].res = OkItems(<<"c">>)
    /\ log[2].call.n = -3
    /\ log[2].res = Raised("IndexError")
    /\ log[3].call.n = -1
    /\ log[3].res = OkItems(<<"b">>)
    /\ queue_file = Dump(<<"a">>)

----------------------------------------------------------------------------
(* C19 *)

\* C19: delete is not terminal.  With callers taking turns, once a delete
\* has succeeded the stores still take calls: while the blob is absent, size
\* returns 0 and get raises EmptyQueueError, both leaving the blob absent,
\* and put(x) succeeds and persists exactly [x].
DeleteNotTerminal ==
    /\ [][\A p \in Procs :
            ~Exists(queue_file) =>
                /\ pc[p] = "load" /\ pc'[p] # pc[p] =>
                      /\ queue_file' = queue_file
                      /\ IF call[p].name = "size"
                         THEN res'[p] = OkInt(0)
                         ELSE pc'[p] = "body" /\ queue_data'[p] = <<>>
                /\ BodyStep(p, "get") =>
                      res'[p] = Raised("EmptyQueueError") /\ queue_file' = queue_file
                /\ BodyStep(p, "put") =>
                      res'[p] = Ok /\ queue_file' = Dump(call[p].items)]_vars
    /\ [](\A k \in 2..Len(log) :
            /\ log[k - 1].call.name = "delete"
            /\ log[k - 1].res = Ok
            /\ log[k].res # Pending
            => /\ log[k].call.name = "size" => log[k].res = OkInt(0)
               /\ log[k].call.name = "get" => log[k].res = Raised("EmptyQueueError")
               /\ log[k].call.name = "put" => log[k].res = Ok
               /\ k = Len(log) /\ Quiescent =>
                     queue_file = IF log[k].call.name = "put"
                                  THEN Dump(log[k].call.items) ELSE Absent)

\* One store has deleted the queue; a get on another store has raised
\* EmptyQueueError, and a put after it made the queue anew.
UsedAfterDelete ==
    /\ Quiescent
    /\ queue_file0 = Dump(<<"a", "b">>)
    /\ Len(log) = 3
    /\ log[1].call.name = "delete"
    /\ log[1].res = Ok
    /\ log[2].call.name = "get"
    /\ log[2].proc # log[1].proc
    /\ log[2].res = Raised("EmptyQueueError")
    /\ log[3].call.name = "put"
    /\ log[3].res = Ok
    /\ queue_file = Dump(<<"a">>)

----------------------------------------------------------------------------
(* C20 *)

\* C20: size only reads.  No step of a size call, from the call to its
\* return or its TimeoutError, changes the blob or whether there is one, a
\* missing blob included; and the number size returns is the length of the
\* list persisted when it loads, holding the lock.
SizeReadsOnly ==
    [][\A p \in Procs :
          /\ \/ call[p].name = "size" /\ pc[p] # "idle"
             \/ call'[p].name = "size" /\ pc[p] = "idle"
          /\ pc'[p] # pc[p]
          => /\ queue_file' = queue_file
             /\ pc[p] = "load" /\ ~LoadRaises(queue_file) =>
                   /\ Holds(p)
                   /\ res'[p] = OkInt(Len(LoadQueue(queue_file)))]_vars

\* size has returned 1 on [a]; after a delete a second size has returned 0,
\* and there is still no blob.
SizeOfNothing ==
    /\ Quiescent
    /\ Len(log) = 3
    /\ log[1].call.name = "size"
    /\ log[1].res = OkInt(1)
    /\ log[2].call.name = "delete"
    /\ log[2].res = Ok
    /\ log[3].call.name = "size"
    /\ log[3].res = OkInt(0)
    /\ ~Exists(queue_file)

====
